---- MODULE Spec2Model ----
(***************************************************************************)
(* Model of the ROI-config tooling:                                        *)
(*   - the Config Gateway  (src/roi_config_mcp/roi_config_mcp.py): four    *)
(*     tool handlers over one hardcoded JSON file, with backup-before-     *)
(*     write and a confirmation gate;                                      *)
(*   - the Batch Updater   (src/scripts/weekly_update.py): a one-shot      *)
(*     script that bumps the version of the same document.                 *)
(*                                                                         *)
(* roi_config_mcp.py as it stands does not compile (two string literals in *)
(* single quotes run over line ends, lines 101-103 and 156-160), so the    *)
(* Gateway process ends at start-up and serves no call: a Gateway call     *)
(* ends in that fault, and the handlers below say what their text would do *)
(* in a module that loads.  weekly_update.py compiles; every run that      *)
(* loads a document ends in the KeyError of UPDATE_PROMPT.format.          *)
(* weekly_update.py names the file by the relative path CONFIG_FILE; the   *)
(* model takes it to be run in the directory of ALLOWED_CONFIG_FILE, so    *)
(* that both programs work on one file.                                    *)
(*                                                                         *)
(* Strings that the code parses (the version) are sequences of characters, *)
(* so that split(".") / int() / f"{..}" are computed.                      *)
(* Python dicts are functions; "k in d" is k \in DOMAIN d.                 *)
(* Exceptions are results [ok |-> FALSE, exc |-> <exception class>].       *)
(***************************************************************************)
EXTENDS Integers, Sequences, FiniteSets

VARIABLES
    file,       \* content at ALLOWED_CONFIG_FILE / CONFIG_FILE
    backups,    \* timestamp suffix -> content of path + ".backup-<ts>"
    now,        \* datetime.now(), in whole seconds (strftime resolution)
    last        \* the call that has finished and not yet returned: what it did

vars == <<file, backups, now, last>>

----------------------------------------------------------------------------
(* Bounds of the model *)

MaxTime == 2

----------------------------------------------------------------------------
(* Python dict helpers *)

Put(d, k, v) == [x \in DOMAIN d \cup {k} |-> IF x = k THEN v ELSE d[x]]
Get(d, k, dflt) == IF k \in DOMAIN d THEN d[k] ELSE dflt
EmptyDict == [x \in {} |-> x]

Ok(v) == [ok |-> TRUE, val |-> v]
Raise(e) == [ok |-> FALSE, exc |-> e]

----------------------------------------------------------------------------
(* str.split("."), int(), and f"{major}.{minor}.{patch}" on character      *)
(* sequences                                                               *)

Digits == <<"0", "1", "2", "3", "4", "5", "6", "7", "8", "9">>

\* int() takes every Unicode decimal digit; this element of a string stands
\* for one of them, U+0663 ARABIC-INDIC DIGIT THREE
ArabicThree == "U+0663"

IsDigit(c) == c = ArabicThree \/ \E i \in 1..Len(Digits) : Digits[i] = c
DigitVal(c) == IF c = ArabicThree THEN 3
               ELSE (CHOOSE i \in 1..Len(Digits) : Digits[i] = c) - 1

RECURSIVE Split(_)
Split(s) ==
    IF \A i \in 1..Len(s) : s[i] # "."
    THEN <<s>>
    ELSE LET i == CHOOSE i \in 1..Len(s) :
                      s[i] = "." /\ \A j \in 1..(i-1) : s[j] # "."
         IN  <<SubSeq(s, 1, i-1)>> \o Split(SubSeq(s, i+1, Len(s)))

\* the characters int() strips at both ends: the ASCII blanks and the other
\* Unicode white space but U+001C..U+001F; one element of a string stands
\* for each character that has no escape
WhiteSpace ==
    {" ", "\t", "\n", "\r", "\f", "U+000B", "U+0085", "U+00A0", "U+1680",
     "U+2000", "U+2001", "U+2002", "U+2003", "U+2004", "U+2005", "U+2006",
     "U+2007", "U+2008", "U+2009", "U+200A", "U+2028", "U+2029", "U+202F",
     "U+205F", "U+3000"}

\* int(p) strips blanks at both ends, takes one sign, then digits that single
\* underscores may separate
IsSpace(c) == c \in WhiteSpace

RECURSIVE LStrip(_)
LStrip(s) == IF Len(s) > 0 /\ IsSpace(s[1]) THEN LStrip(Tail(s)) ELSE s

RECURSIVE RStrip(_)
RStrip(s) == IF Len(s) > 0 /\ IsSpace(s[Len(s)])
             THEN RStrip(SubSeq(s, 1, Len(s)-1)) ELSE s

Strip(s) == RStrip(LStrip(s))

Unsigned(s) == IF Len(s) > 0 /\ s[1] \in {"+", "-"} THEN Tail(s) ELSE s

IsDigitRun(p) ==
    /\ Len(p) > 0
    /\ IsDigit(p[1])
    /\ IsDigit(p[Len(p)])
    /\ \A i \in 1..Len(p) : IsDigit(p[i]) \/ p[i] = "_"
    /\ \A i \in 1..(Len(p)-1) : ~(p[i] = "_" /\ p[i+1] = "_")

IsInt(p) == IsDigitRun(Unsigned(Strip(p)))

RECURSIVE NatOf(_)
NatOf(p) == IF Len(p) = 0 THEN 0
            ELSE IF p[Len(p)] = "_" THEN NatOf(SubSeq(p, 1, Len(p)-1))
            ELSE 10 * NatOf(SubSeq(p, 1, Len(p)-1)) + DigitVal(p[Len(p)])

IntOf(p) == IF Len(Strip(p)) > 0 /\ Strip(p)[1] = "-"
            THEN 0 - NatOf(Unsigned(Strip(p)))
            ELSE NatOf(Unsigned(Strip(p)))

\* str(n) as f"{n}" prints it
RECURSIVE StrOf(_)
StrOf(n) == IF n < 0 THEN <<"-">> \o StrOf(0 - n)
            ELSE IF n < 10 THEN <<Digits[n+1]>>
            ELSE StrOf(n \div 10) \o <<Digits[(n % 10) + 1]>>

FormatVersion(major, minor, patch) ==
    StrOf(major) \o <<".">> \o StrOf(minor) \o <<".">> \o StrOf(patch)

----------------------------------------------------------------------------
(* File contents and JSON values                                           *)
(*   a file is absent, holds text that is not JSON, or holds JSON text     *)
(*   (with its layout: as found, or as json.dump(indent=2) lays it out),   *)
(*   and its lines end in "\n" (lf), "\r\n" (crlf) or "\r" (cr);           *)
(*   a JSON value is an object (a dict), a list, null or a number.         *)

Absent == [st |-> "absent"]
NotJson == [st |-> "text", eol |-> "lf"]
JsonText(fmt, v) == [st |-> "json", fmt |-> fmt, eol |-> "lf", val |-> v]

\* the same text with other line ends
WithEol(text, e) == [text EXCEPT !.eol = e]

\* open(path, "r").read(): universal newlines turn "\r\n" and "\r" into "\n"
TextRead(f) == [f EXCEPT !.eol = "lf"]

Obj(m) == [t |-> "obj", m |-> m]
List(n) == [t |-> "list", n |-> n]
Null == [t |-> "null"]
Num(n) == [t |-> "num", n |-> n]

\* json.load / json.loads
JsonLoads(text) ==
    IF text.st = "json" THEN Ok(text.val) ELSE Raise("JSONDecodeError")

\* json.dump(config, f, indent=2) into a file opened "w": "\n" line ends
JsonDumpIndent(v) == JsonText("indent2", v)

\* bool(x) of a parsed JSON value
Truthy(v) ==
    CASE v.t = "obj"  -> DOMAIN v.m # {}
      [] v.t = "list" -> v.n > 0
      [] v.t = "num"  -> v.n # 0
      [] OTHER        -> FALSE

----------------------------------------------------------------------------
(* Paths: the configured path, and path + ".backup-<timestamp>"            *)

ConfigPath == [file |-> "ALLOWED_CONFIG_FILE", suffix |-> <<>>]
BackupPath(t) == [file |-> "ALLOWED_CONFIG_FILE", suffix |-> <<t>>]
Open(p, mode) == [path |-> p, mode |-> mode]

----------------------------------------------------------------------------
(* Gateway helpers                                                         *)

\* _validate_file_access: os.path.isfile(ALLOWED_CONFIG_FILE)
ValidateFileAccess(f) == f.st # "absent"

\* _get_file_hash: a digest of the raw bytes, "" when the file is absent
GetFileHash(f) == IF ~ValidateFileAccess(f) THEN [sha |-> Absent] ELSE [sha |-> f]

GetFileHashOpens(f) ==
    IF ValidateFileAccess(f) THEN {Open(ConfigPath, "rb")} ELSE {}

ReadConfig(f) ==
    IF ~ValidateFileAccess(f) THEN Raise("FileNotFoundError") ELSE JsonLoads(f)

ReadConfigOpens(f) ==
    IF ValidateFileAccess(f) THEN {Open(ConfigPath, "r")} ELSE {}

\* _write_config(config, backup) on file content f and backups b; t is the
\* second datetime.now() gives at line 54; the backup is what a text-mode
\* read of the file returns
WriteConfig(config, backup, f, b, t) ==
    IF ~ValidateFileAccess(f)
    THEN [ok |-> FALSE, exc |-> "FileNotFoundError", file |-> f, backups |-> b,
          opened |-> {}, backup |-> <<>>]
    ELSE [ok |-> TRUE, exc |-> "",
          file |-> JsonDumpIndent(config),
          backups |-> IF backup THEN Put(b, t, TextRead(f)) ELSE b,
          opened |-> {Open(ConfigPath, "w")}
                     \cup (IF backup THEN {Open(ConfigPath, "r"), Open(BackupPath(t), "w")}
                           ELSE {}),
          backup |-> IF backup THEN <<t>> ELSE <<>>]

----------------------------------------------------------------------------
(* The version bump                                                        *)

V100 == <<"1", ".", "0", ".", "0">>

\* roi_config_apply, lines 135-142: parts = old_version.split("."); the tuple
\* int(parts[0]), int(parts[1]), int(parts[2]) is evaluated left to right
ApplyVersion(old_version, inc) ==
    LET parts == Split(old_version) IN
    IF ~IsInt(parts[1]) THEN Raise("ValueError")
    ELSE IF Len(parts) < 2 THEN Raise("IndexError")
    ELSE IF ~IsInt(parts[2]) THEN Raise("ValueError")
    ELSE IF Len(parts) < 3 THEN Raise("IndexError")
    ELSE IF ~IsInt(parts[3]) THEN Raise("ValueError")
    ELSE IF inc = "minor"
         THEN Ok(FormatVersion(IntOf(parts[1]), IntOf(parts[2]) + 1, 0))
         ELSE Ok(FormatVersion(IntOf(parts[1]), IntOf(parts[2]), IntOf(parts[3]) + 1))

\* weekly_update.increment_version (lines 59-70)
IncrementVersion(version, increment_type) ==
    LET parts == Split(version) IN
    IF Len(parts) = 3
    THEN IF \E i \in 1..3 : ~IsInt(parts[i]) THEN Raise("ValueError")
         ELSE IF increment_type = "minor"
              THEN Ok(FormatVersion(IntOf(parts[1]), IntOf(parts[2]) + 1, 0))
              ELSE Ok(FormatVersion(IntOf(parts[1]), IntOf(parts[2]),
                                    IntOf(parts[3]) + 1))
    ELSE Ok(version)

\* config["version"] = <the bumped version>, unless the bump raised
WithVersion(config, v) ==
    IF v.ok THEN Ok(Put(config, "version", v.val)) ELSE v

----------------------------------------------------------------------------
(* roi_config_apply: the merge of one category (lines 145-149, 150-154)    *)

\* data.items() raises when an entry that is applied is not a mapping
MergeRaises(config, updates, cat, ukey) ==
    \E g \in DOMAIN Get(updates, ukey, EmptyDict) \cap DOMAIN Get(config, cat, EmptyDict) :
        updates[ukey][g].t # "obj"

\* mutant: the "if g in config[cat]" test is dropped, so new keys are inserted
MergeCategoryInserts(config, updates, cat, ukey) ==
    IF ukey \notin DOMAIN updates \/ cat \notin DOMAIN config THEN config
    ELSE Put(config, cat,
             [g \in DOMAIN config[cat]
                    \cup {h \in DOMAIN updates[ukey] : updates[ukey][h].t = "obj"} |->
                IF g \in DOMAIN updates[ukey] /\ updates[ukey][g].t = "obj"
                THEN [k \in (IF g \in DOMAIN config[cat] THEN DOMAIN config[cat][g] ELSE {})
                            \cup DOMAIN updates[ukey][g].m |->
                        IF k \in DOMAIN updates[ukey][g].m
                        THEN updates[ukey][g].m[k]
                        ELSE config[cat][g][k]]
                ELSE config[cat][g]])

\* config[cat][g][k] = v for every g already in config[cat]
MergeCategory(config, updates, cat, ukey) ==
    IF DOMAIN Get(updates, ukey, EmptyDict) \cap DOMAIN Get(config, cat, EmptyDict) = {}
    THEN config
    ELSE Put(config, cat,
             [g \in DOMAIN config[cat] |->
                IF g \in DOMAIN updates[ukey]
                THEN [k \in DOMAIN config[cat][g] \cup DOMAIN updates[ukey][g].m |->
                        IF k \in DOMAIN updates[ukey][g].m
                        THEN updates[ukey][g].m[k]
                        ELSE config[cat][g][k]]
                ELSE config[cat][g]])

\* the change entries "<label>.<g>.<k>: <v>" of one category
MergeChanges(config, updates, cat, ukey, label) ==
    UNION { { <<label, g, k, updates[ukey][g].m[k]>> : k \in DOMAIN updates[ukey][g].m } :
            g \in DOMAIN Get(updates, ukey, EmptyDict)
                  \cap DOMAIN Get(config, cat, EmptyDict) }

ApplyFail(exc, opened) ==
    [ok |-> FALSE, exc |-> exc, opened |-> opened]

\* lines 150-154, on the document c3 with gpuTypes merged
ApplyModels(c3, updates, vchange, gchanges, opened) ==
    IF MergeRaises(c3, updates, "modelArchitectures", "modelArchitectures_updates")
    THEN ApplyFail("AttributeError", opened)
    ELSE [ok |-> TRUE, exc |-> "", opened |-> opened,
          config |-> Obj(MergeCategory(c3, updates, "modelArchitectures",
                                       "modelArchitectures_updates")),
          vchange |-> vchange,
          changes |-> gchanges
                      \cup MergeChanges(c3, updates, "modelArchitectures",
                                        "modelArchitectures_updates", "models")]

\* lines 145-149, on the document c2 with version and lastUpdated set
ApplyGpus(c2, updates, vchange, opened) ==
    IF MergeRaises(c2, updates, "gpuTypes", "gpuTypes_updates")
    THEN ApplyFail("AttributeError", opened)
    ELSE ApplyModels(MergeCategory(c2, updates, "gpuTypes", "gpuTypes_updates"),
                     updates, vchange,
                     MergeChanges(c2, updates, "gpuTypes", "gpuTypes_updates", "gpuTypes"),
                     opened)

\* lines 143-144: the "Version: old -> new" change entry, then lastUpdated
ApplyStamp(config, updates, v, opened, t) ==
    IF ~v.ok THEN ApplyFail(v.exc, opened)
    ELSE ApplyGpus(Put(v.val, "lastUpdated", t), updates,
                   IF Get(updates, "version_increment", "") # ""
                   THEN {<<Get(config, "version", V100), v.val["version"]>>}
                   ELSE {},
                   opened)

\* lines 132-142: the bump happens when version_increment is truthy
ApplyBump(config, updates, opened, t) ==
    ApplyStamp(config, updates,
               IF Get(updates, "version_increment", "") # ""
               THEN WithVersion(config, ApplyVersion(Get(config, "version", V100),
                                                     updates["version_increment"]))
               ELSE Ok(config),
               opened, t)

\* lines 130-132: u = json.loads(updates_json), r = _read_config(), then the
\* first config.get and updates.get
ApplyLoaded(u, r, opened, t) ==
    IF ~u.ok THEN ApplyFail(u.exc, {})
    ELSE IF ~r.ok THEN ApplyFail(r.exc, opened)
    ELSE IF r.val.t # "obj" THEN ApplyFail("AttributeError", opened)
    ELSE IF u.val.t # "obj" THEN ApplyFail("AttributeError", opened)
    ELSE ApplyBump(r.val.m, u.val.m, opened, t)

\* roi_config_apply, lines 130-154: everything between the confirmation gate
\* and _write_config, on file content f at second t
ApplyCompute(updates_json, f, t) ==
    ApplyLoaded(JsonLoads(updates_json), ReadConfig(f), ReadConfigOpens(f), t)

----------------------------------------------------------------------------
(* What a finished call leaves in `last`                                   *)
(*   raised = TRUE: the handler let exception exc escape to its caller;    *)
(*   otherwise text is the kind of string it returned.                     *)

ConfirmRequired == "ERROR: Set user_confirmed=True to proceed"
NotFoundMessage == "Config file not found: ALLOWED_CONFIG_FILE"

\* f"Error: {e}"
ErrorText(exc) ==
    IF exc = "FileNotFoundError" THEN "Error: " \o NotFoundMessage
    ELSE "Error: " \o exc

Done(op, args, f, b, raised, exc, text, opened, out) ==
    [op |-> op, args |-> args, pre |-> [file |-> f, backups |-> b],
     raised |-> raised, exc |-> exc, text |-> text, opened |-> opened, out |-> out]

NoOut == [none |-> TRUE]
NoArgs == [none |-> TRUE]

\* dict.get(k) with its None default
Opt(d, k) == IF k \in DOMAIN d THEN [some |-> TRUE, v |-> d[k]] ELSE [some |-> FALSE]

----------------------------------------------------------------------------
(* roi_config_apply (lines 124-162): the whole handler on (f, b);          *)
(* datetime.now() is read at line 144 (second t) and, in _write_config, at *)
(* line 54 (second t2)                                                     *)

\* lines 155-160 and the except clause, given the result w of _write_config
ApplyWritten(params, c, w, f, b) ==
    IF ~w.ok
    THEN [file |-> w.file, backups |-> w.backups,
          ret |-> Done("apply", params, f, b, FALSE, w.exc, ErrorText(w.exc),
                       c.opened \cup w.opened, NoOut)]
    ELSE [file |-> w.file, backups |-> w.backups,
          ret |-> Done("apply", params, f, b, FALSE, "", "# Update Applied",
                       c.opened \cup w.opened,
                       [nchanges |-> Cardinality(c.vchange) + Cardinality(c.changes),
                        vchange |-> c.vchange, changes |-> c.changes,
                        backup |-> w.backup])]

\* mutant: the backup is taken before the outcome of the merge is known
ApplyTryBackupFirst(params, c, f, b, t) ==
    IF ~c.ok
    THEN [file |-> f,
          backups |-> IF params.create_backup /\ ValidateFileAccess(f)
                      THEN Put(b, t, TextRead(f)) ELSE b,
          ret |-> Done("apply", params, f, b, FALSE, c.exc, ErrorText(c.exc),
                       c.opened, NoOut)]
    ELSE ApplyWritten(params, c,
                      WriteConfig(c.config, params.create_backup, f, b, t), f, b)

\* the try block, given the result c of lines 130-154
ApplyTry(params, c, f, b, t) ==
    IF ~c.ok
    THEN [file |-> f, backups |-> b,
          ret |-> Done("apply", params, f, b, FALSE, c.exc, ErrorText(c.exc),
                       c.opened, NoOut)]
    ELSE ApplyWritten(params, c,
                      WriteConfig(c.config, params.create_backup, f, b, t), f, b)

\* lines 127-129: the confirmation gate, then the try block
ApplyHandler(params, f, b, t, t2) ==
    IF ~params.user_confirmed
    THEN [file |-> f, backups |-> b,
          ret |-> Done("apply", params, f, b, FALSE, "", ConfirmRequired, {}, NoOut)]
    ELSE ApplyTry(params, ApplyCompute(params.updates_json, f, t), f, b, t2)

----------------------------------------------------------------------------
(* roi_config_read (lines 82-105); the [:3000] cut of the digest is not    *)
(* modelled                                                                *)

SectionMap ==
    [gpuTypes |-> "gpuTypes", hardware |-> "hardware",
     models |-> "modelArchitectures", storage |-> "storageOptions"]

ReadError(params, f, b, e, opened) ==
    Done("read", params, f, b, FALSE, e, ErrorText(e), opened, NoOut)

\* lines 88-98: the data selected by params.section ("" is no section)
ReadData(section, config) ==
    IF section = "" THEN [whole |-> config]
    ELSE IF section = "metadata"
    THEN [version |-> Opt(config.m, "version"),
          lastUpdated |-> Opt(config.m, "lastUpdated")]
    ELSE [section |-> Get(config.m, SectionMap[section], EmptyDict)]

\* lines 88-105, with config loaded and the file hashed
ReadHashed(params, config, opened, f, b) ==
    IF params.section # "" /\ params.section # "metadata"
       /\ params.section \notin DOMAIN SectionMap
    THEN Done("read", params, f, b, FALSE, "", "Error: Unknown section", opened, NoOut)
    ELSE IF params.section # "" /\ config.t # "obj"
    THEN ReadError(params, f, b, "AttributeError", opened)
    ELSE IF params.response_format = "json"
    THEN Done("read", params, f, b, FALSE, "", "json", opened,
              [file_hash |-> GetFileHash(f), data |-> ReadData(params.section, config)])
    ELSE IF config.t # "obj"
    THEN ReadError(params, f, b, "AttributeError", opened)
    ELSE Done("read", params, f, b, FALSE, "", "# ROI Config", opened,
              [version |-> Opt(config.m, "version"),
               data |-> ReadData(params.section, config)])

\* lines 86-87: r is the result of _read_config, then _get_file_hash opens
\* the file again
ReadLoaded(params, r, opened, f, b) ==
    IF ~r.ok THEN ReadError(params, f, b, r.exc, opened)
    ELSE ReadHashed(params, r.val, opened \cup GetFileHashOpens(f), f, b)

ReadHandler(params, f, b) ==
    ReadLoaded(params, ReadConfig(f), ReadConfigOpens(f), f, b)

----------------------------------------------------------------------------
(* roi_config_research (lines 107-122): no try/except                      *)

ResearchLoaded(params, r, opened, f, b, t) ==
    IF ~r.ok
    THEN Done("research", params, f, b, TRUE, r.exc, "", opened, NoOut)
    ELSE IF r.val.t # "obj"
    THEN Done("research", params, f, b, TRUE, "AttributeError", "", opened, NoOut)
    ELSE Done("research", params, f, b, FALSE, "", "# Research Request", opened,
              [version |-> Opt(r.val.m, "version"), date |-> t,
               categories |-> params.categories])

ResearchHandler(params, f, b, t) ==
    ResearchLoaded(params, ReadConfig(f), ReadConfigOpens(f), f, b, t)

----------------------------------------------------------------------------
(* roi_config_status (lines 164-179): no try/except                        *)

StatusLoaded(r, opened, f, b) ==
    IF ~r.ok
    THEN Done("status", NoArgs, f, b, TRUE, r.exc, "", opened, NoOut)
    ELSE IF r.val.t # "obj"
    THEN Done("status", NoArgs, f, b, TRUE, "AttributeError", "", opened, NoOut)
    ELSE Done("status", NoArgs, f, b, FALSE, "", "# ROI Config MCP Status", opened,
              [exists |-> TRUE, version |-> Opt(r.val.m, "version"),
               gpus |-> Cardinality(DOMAIN Get(r.val.m, "gpuTypes", EmptyDict)),
               models |-> Cardinality(DOMAIN Get(r.val.m, "modelArchitectures",
                                                 EmptyDict))])

StatusHandler(f, b) ==
    IF ~ValidateFileAccess(f)
    THEN Done("status", NoArgs, f, b, FALSE, "", "# ROI Config MCP Status", {},
              [exists |-> FALSE, version |-> [some |-> FALSE], gpus |-> 0, models |-> 0])
    ELSE StatusLoaded(ReadConfig(f), ReadConfigOpens(f), f, b)

----------------------------------------------------------------------------
(* The Batch Updater (weekly_update.py)                                    *)
(*   an API outcome is an exception, or a response text that either holds  *)
(*   a ```json fence (inner: the text between the fences) or does not.     *)

ApiError == [api |-> "error"]
Fenced(inner) == [api |-> "ok", fenced |-> TRUE, inner |-> inner, whole |-> NotJson]
Plain(whole) == [api |-> "ok", fenced |-> FALSE, whole |-> whole]

\* a str.format template: literal text and {replacement fields}
Text == [kind |-> "text"]
Field(name) == [kind |-> "field", name |-> name]

\* UPDATE_PROMPT (lines 15-30): {date}, {version}, and the JSON shape of lines
\* 23-29, whose braces are not doubled: a replacement field whose name is the
\* text up to the first colon
UPDATE_PROMPT ==
    <<Text, Field("date"), Text, Field("version"), Text,
      Field("\n  \"version_increment\""), Text>>

\* template.format(**kwargs): KeyError for a field that is no keyword
StrFormat(template, kwargs) ==
    IF \E i \in 1..Len(template) :
          template[i].kind = "field" /\ template[i].name \notin kwargs
    THEN Raise("KeyError")
    ELSE Ok(template)

\* lines 49-57: json.loads of the extracted text; Python's None is Null
ParseResponse(parsed) == IF parsed.ok THEN Ok(parsed.val) ELSE Ok(Null)

\* get_claude_updates (lines 32-57): the prompt is formatted (line 41) before
\* client.messages.create is called
GetClaudeUpdates(resp) ==
    IF ~StrFormat(UPDATE_PROMPT, {"date", "version"}).ok
    THEN StrFormat(UPDATE_PROMPT, {"date", "version"})
    ELSE IF resp.api = "error" THEN Raise("APIError")
    ELSE ParseResponse(JsonLoads(IF resp.fenced THEN resp.inner ELSE resp.whole))

\* apply_updates, line 85 and the return, unless the bump raised
UpdatesStamped(v, changes_made, t) ==
    IF ~v.ok THEN v
    ELSE Ok([config |-> Put(v.val, "lastUpdated", t), changes_made |-> changes_made])

\* apply_updates (lines 72-86) on a config dict and a parsed JSON value
ApplyUpdates(config, updates, t) ==
    IF ~Truthy(updates) THEN Ok([config |-> config, changes_made |-> FALSE])
    ELSE IF updates.t # "obj" THEN Raise("AttributeError")
    ELSE IF Get(updates.m, "version_increment", "") # ""
    THEN UpdatesStamped(WithVersion(config,
                                    IncrementVersion(Get(config, "version", V100),
                                                     updates.m["version_increment"])),
                        TRUE, t)
    ELSE UpdatesStamped(Ok(config), FALSE, t)

\* main, lines 92-99: the existence check and the load
BatchParsed(r) ==
    IF ~r.ok
    THEN [ok |-> FALSE, raised |-> TRUE, exc |-> r.exc,
          opened |-> {Open(ConfigPath, "r")}]
    ELSE IF r.val.t # "obj"
    THEN [ok |-> FALSE, raised |-> TRUE, exc |-> "AttributeError",
          opened |-> {Open(ConfigPath, "r")}]
    ELSE [ok |-> TRUE, raised |-> FALSE, exc |-> "",
          opened |-> {Open(ConfigPath, "r")}, config |-> r.val.m]

BatchLoad(f) ==
    IF f.st = "absent" THEN [ok |-> FALSE, raised |-> FALSE, exc |-> "", opened |-> {}]
    ELSE BatchParsed(JsonLoads(f))

\* main, lines 106-113, given the result a of apply_updates
BatchApplied(a) ==
    IF ~a.ok THEN [write |-> FALSE, raised |-> TRUE, exc |-> a.exc, exit |-> 1]
    ELSE IF a.val.changes_made
    THEN [write |-> TRUE, raised |-> FALSE, exc |-> "", exit |-> 0,
          config |-> a.val.config]
    ELSE [write |-> FALSE, raised |-> FALSE, exc |-> "", exit |-> 0]

\* main, lines 104-116, given the result u of get_claude_updates; an
\* exception that escapes main ends the process with status 1
BatchUpdates(config, u, t) ==
    IF ~u.ok THEN [write |-> FALSE, raised |-> TRUE, exc |-> u.exc, exit |-> 1]
    ELSE IF ~Truthy(u.val) THEN [write |-> FALSE, raised |-> FALSE, exc |-> "", exit |-> 1]
    ELSE IF u.val.t # "obj"
    THEN [write |-> FALSE, raised |-> TRUE, exc |-> "AttributeError", exit |-> 1]
    ELSE BatchApplied(ApplyUpdates(config, u.val, t))

\* main, lines 101-116: what the run decides to do with the loaded config
\*   write = TRUE: go on to overwrite the file with config; otherwise exit
BatchDecide(config, resp, t) ==
    BatchUpdates(config, GetClaudeUpdates(resp), t)

BatchOut(exit, wrote) == [exit |-> exit, wrote |-> wrote]

\* main, lines 108-118
BatchFinish(resp, l, d, f, b) ==
    IF d.write
    THEN [file |-> JsonDumpIndent(Obj(d.config)),
          ret |-> Done("batch", resp, f, b, FALSE, "", "",
                       l.opened \cup {Open(ConfigPath, "w")}, BatchOut(d.exit, TRUE))]
    ELSE [file |-> f,
          ret |-> Done("batch", resp, f, b, d.raised, d.exc, "", l.opened,
                       BatchOut(d.exit, FALSE))]

\* mutant: a missing file is not reported as a failure
BatchLoadedExitZero(resp, l, f, b, t) ==
    IF ~l.ok
    THEN [file |-> f,
          ret |-> Done("batch", resp, f, b, l.raised, l.exc, "", l.opened,
                       BatchOut(IF l.raised THEN 1 ELSE 0, FALSE))]
    ELSE BatchFinish(resp, l, BatchDecide(l.config, resp, t), f, b)

\* main, lines 92-118, given the result l of the existence check and the load
BatchLoaded(resp, l, f, b, t) ==
    IF ~l.ok
    THEN [file |-> f,
          ret |-> Done("batch", resp, f, b, l.raised, l.exc, "", l.opened,
                       BatchOut(1, FALSE))]
    ELSE BatchFinish(resp, l, BatchDecide(l.config, resp, t), f, b)

\* main (lines 88-118) as one uninterrupted run, and the process exit status
BatchMain(resp, f, b, t) ==
    BatchLoaded(resp, BatchLoad(f), f, b, t)

----------------------------------------------------------------------------
(* The inputs the model draws from                                         *)

V149 == <<"1", ".", "4", ".", "9">>
V1049 == <<"1", ".", "0", "4", ".", "9">>
V10 == <<"1", ".", "0">>
V1234 == <<"1", ".", "2", ".", "3", ".", "4">>
V1x0 == <<"1", ".", "x", ".", "0">>

\* versions whose parts int() takes although they are not plain digit runs
VPlus == <<"+", "1", ".", "4", ".", "9">>
VMinus == <<"-", "1", ".", "4", ".", "9">>
VBlank == <<" ", "1", ".", "4", ".", "9", "\n">>
VUnder == <<"1", "_", "0", ".", "4", ".", "9">>
VCr == <<"1", ".", "4", ".", "9", "\r">>
VNbsp == <<"1", ".", "U+00A0", "4", "U+2003", ".", "\f", "9", "U+000B">>
VArabic == <<"1", ".", "4", ".", ArabicThree>>

\* versions with a part int() rejects
VSep == <<"1", ".", "4", ".", "9", "U+001F">>
VSignOnly == <<"1", ".", "+", ".", "9">>
VUnder2 == <<"1", ".", "4", "_", "_", "0", ".", "9">>
VEmptyPart == <<"1", ".", ".", "9">>

Versions ==
    {V149, V1049, V10, V1234, V1x0, VPlus, VMinus, VBlank, VUnder, VCr, VNbsp,
     VArabic, VSep, VSignOnly, VUnder2, VEmptyPart, <<>>}

BaseDoc ==
    [version |-> V149,
     lastUpdated |-> 0,
     gpuTypes |-> [H100 |-> [price |-> 1]],
     modelArchitectures |-> [llama |-> [params |-> 1]],
     storageOptions |-> [nvme |-> [cost |-> 1]]]

NoVersionDoc == [k \in DOMAIN BaseDoc \ {"version"} |-> BaseDoc[k]]

SampleDocs ==
    { [BaseDoc EXCEPT !.version = v] : v \in {V149, V1049, V10, V1234, V1x0, VPlus} }
    \cup { NoVersionDoc,
           [k \in DOMAIN BaseDoc \ {"modelArchitectures"} |->
               IF k = "gpuTypes" THEN [H100 |-> [price |-> 1], B200 |-> [price |-> 2]]
               ELSE BaseDoc[k]] }

\* the document of BaseDoc saved with "\r\n" line ends
CrLfFile == WithEol(JsonText("asfound", Obj(BaseDoc)), "crlf")

InitialFiles ==
    {Absent, NotJson, JsonText("asfound", List(0)), CrLfFile}
    \cup { JsonText("asfound", Obj(d)) : d \in SampleDocs }

VersionFiles ==
    { JsonText("asfound", Obj([BaseDoc EXCEPT !.version = v])) : v \in Versions }
    \cup { JsonText("asfound", Obj(NoVersionDoc)) }

Upd(m) == JsonText("asfound", Obj(m))

\* the version bump and the gpuTypes entry apply, the models entry is no mapping
PartlyMergeable ==
    Upd([version_increment |-> "minor",
         gpuTypes_updates |-> [H100 |-> Obj([price |-> 2]), B300 |-> Obj([price |-> 2])],
         modelArchitectures_updates |-> [llama |-> Num(5)]])

Payloads ==
    { NotJson,
      JsonText("asfound", List(1)),
      JsonText("asfound", Num(5)),
      Upd(EmptyDict),
      Upd([version_increment |-> "minor"]),
      Upd([version_increment |-> "patch"]),
      Upd([version_increment |-> "major"]),
      Upd([version_increment |-> "", notes |-> "n"]),
      Upd([gpuTypes_updates |-> [H100 |-> Obj([price |-> 2])]]),
      Upd([gpuTypes_updates |-> [H100 |-> Obj([tdp |-> 1])]]),
      Upd([gpuTypes_updates |-> [B300 |-> Obj([price |-> 2])]]),
      Upd([gpuTypes_updates |-> [B300 |-> Num(5)]]),
      Upd([gpuTypes_updates |-> [H100 |-> Num(5)]]),
      Upd([modelArchitectures_updates |-> [llama |-> Obj([params |-> 2])]]),
      Upd([modelArchitectures_updates |-> [gpt |-> Obj([params |-> 2])]]),
      PartlyMergeable,
      Upd([version_increment |-> "patch",
           gpuTypes_updates |-> [H100 |-> Obj([price |-> 2]), B200 |-> Obj([price |-> 1])],
           modelArchitectures_updates |-> [llama |-> Obj([ctx |-> 1])]]) }

IncrementTypes == {"minor", "patch", "major", ""}

VersionPayloads ==
    { Upd([version_increment |-> inc, notes |-> "n"]) : inc \in IncrementTypes }
    \cup { Upd([notes |-> "n"]) }

\* what apply_updates is given as updates
UpdateValues ==
    { Obj([version_increment |-> inc, notes |-> "n"]) : inc \in IncrementTypes }
    \cup { Obj([notes |-> "n"]), Obj(EmptyDict), Null, List(1), Num(5) }

Sections == {"", "metadata", "gpuTypes", "hardware", "models", "storage", "pricing"}
Formats == {"markdown", "json"}

Responses ==
    { ApiError,
      Plain(NotJson),
      Fenced(NotJson),
      Plain(JsonText("asfound", Null)),
      Plain(JsonText("asfound", List(0))),
      Plain(JsonText("asfound", List(1))),
      Plain(JsonText("asfound", Num(0))),
      Plain(JsonText("asfound", Num(5))),
      Plain(Upd(EmptyDict)),
      Plain(Upd([notes |-> "n"])),
      Plain(Upd([version_increment |-> "", notes |-> "n"])),
      Plain(Upd([version_increment |-> "minor"])),
      Fenced(Upd([version_increment |-> "patch", notes |-> "n"])),
      Fenced(Upd([version_increment |-> "major", gpu_updates |-> EmptyDict])) }

----------------------------------------------------------------------------
(* Loading roi_config_mcp.py: `python roi_config_mcp.py` compiles the file  *)
(* before it runs a line of it                                              *)

\* a string literal that runs over line ends: its first and last line and
\* the number of quote characters that open it
Literal(first, end, quotes) == [first |-> first, end |-> end, quotes |-> quotes]

\* the literals of roi_config_mcp.py that run over line ends
GatewayLiterals ==
    { Literal(2, 10, 3), Literal(101, 103, 1), Literal(111, 122, 3),
      Literal(156, 159, 1), Literal(159, 160, 1), Literal(173, 179, 3) }

\* only a literal in triple quotes may run over a line end
Compiles(literals) == \A l \in literals : l.end > l.first => l.quotes = 3

\* mcp.run() (line 182) is reached only in a file that compiled
ModuleLoads == Compiles(GatewayLiterals)

\* a tool call to a Gateway whose process ended with the SyntaxError: no
\* handler runs, and the caller gets the fault instead of a response
NotServed(op, params, f, b) ==
    Done(op, params, f, b, TRUE, "SyntaxError", "", {}, NoOut)

----------------------------------------------------------------------------
(* State machine: calls that run one at a time                             *)

NoCall == Done("none", NoArgs, Absent, EmptyDict, FALSE, "", "", {}, NoOut)

\* no call made yet; the file is one of F
InitWith(F) ==
    /\ file \in F
    /\ backups = EmptyDict
    /\ now = 1
    /\ last = NoCall

Init == InitWith(InitialFiles)

\* the clock moves on to the next second (between calls)
Tick ==
    /\ last.op = "none"
    /\ now < MaxTime
    /\ now' = now + 1
    /\ UNCHANGED <<file, backups, last>>

\* the caller has taken the outcome of the finished call
Return ==
    /\ last.op # "none"
    /\ last' = NoCall
    /\ UNCHANGED <<file, backups, now>>

RoiConfigRead ==
    /\ last.op = "none"
    /\ \E section \in Sections, response_format \in Formats :
        LET params == [section |-> section, response_format |-> response_format]
        IN  last' = IF ModuleLoads THEN ReadHandler(params, file, backups)
                    ELSE NotServed("read", params, file, backups)
    /\ UNCHANGED <<file, backups, now>>

RoiConfigResearch ==
    /\ last.op = "none"
    /\ \E categories \in {"all", "gpu"} :
        LET params == [categories |-> categories]
        IN  last' = IF ModuleLoads THEN ResearchHandler(params, file, backups, now)
                    ELSE NotServed("research", params, file, backups)
    /\ UNCHANGED <<file, backups, now>>

\* the state after roi_config_apply returned r, having read the clock last
\* at second t2
Applied(r, t2) ==
    /\ file' = r.file
    /\ backups' = r.backups
    /\ last' = r.ret
    /\ now' = t2

\* the seconds the clock may show at line 54 when it showed `now` at line 144
LaterReadings == {t \in {now, now + 1} : t <= MaxTime}

\* roi_config_apply with a payload of P; a handler that runs reads the clock
\* at line 144 and again at line 54
Apply(P) ==
    /\ last.op = "none"
    /\ \E updates_json \in P, user_confirmed \in BOOLEAN, create_backup \in BOOLEAN :
        LET params == [updates_json |-> updates_json,
                       user_confirmed |-> user_confirmed,
                       create_backup |-> create_backup]
        IN  IF ModuleLoads
            THEN \E t2 \in LaterReadings :
                    Applied(ApplyHandler(params, file, backups, now, t2), t2)
            ELSE /\ last' = NotServed("apply", params, file, backups)
                 /\ UNCHANGED <<file, backups, now>>

RoiConfigApply == Apply(Payloads)

RoiConfigStatus ==
    /\ last.op = "none"
    /\ last' = IF ModuleLoads THEN StatusHandler(file, backups)
               ELSE NotServed("status", NoArgs, file, backups)
    /\ UNCHANGED <<file, backups, now>>

\* the state after a weekly_update run ended as r
Updated(r) ==
    /\ file' = r.file
    /\ last' = r.ret

\* one run of weekly_update.py, the API answering with resp
WeeklyUpdate ==
    /\ last.op = "none"
    /\ \E resp \in Responses : Updated(BatchMain(resp, file, backups, now))
    /\ UNCHANGED <<backups, now>>

Next ==
    \/ Tick
    \/ Return
    \/ RoiConfigRead
    \/ RoiConfigResearch
    \/ RoiConfigApply
    \/ RoiConfigStatus
    \/ WeeklyUpdate

Spec == Init /\ [][Next]_vars

----------------------------------------------------------------------------
(* The version rule of both programs on the same versions: applies and     *)
(* runs that are to bump the stored version, and calls of weekly_update's  *)
(* increment_version and apply_updates                                     *)

InitVersion == InitWith(VersionFiles)

ApplyVersioned == Apply(VersionPayloads)

\* increment_version(version, increment_type) returned or raised r
Incremented(version, increment_type, r) ==
    Done("increment_version",
         [version |-> version, increment_type |-> increment_type],
         file, backups, ~r.ok, IF r.ok THEN "" ELSE r.exc, "", {}, r)

CallIncrementVersion ==
    /\ last.op = "none"
    /\ \E version \in Versions, increment_type \in IncrementTypes :
        last' = Incremented(version, increment_type,
                            IncrementVersion(version, increment_type))
    /\ UNCHANGED <<file, backups, now>>

\* apply_updates(config, updates) returned or raised r
UpdatesApplied(config, updates, r) ==
    Done("apply_updates", [config |-> config, updates |-> updates],
         file, backups, ~r.ok, IF r.ok THEN "" ELSE r.exc, "", {}, r)

\* apply_updates on the document the file holds
CallApplyUpdates ==
    /\ last.op = "none"
    /\ file.val.t = "obj"
    /\ \E updates \in UpdateValues :
        last' = UpdatesApplied(file.val.m, updates,
                               ApplyUpdates(file.val.m, updates, now))
    /\ UNCHANGED <<file, backups, now>>

NextVersion ==
    \/ Tick
    \/ Return
    \/ ApplyVersioned
    \/ WeeklyUpdate
    \/ CallIncrementVersion
    \/ CallApplyUpdates

SpecVersion == InitVersion /\ [][NextVersion]_vars

----------------------------------------------------------------------------
(* Vocabulary of the properties                                            *)

GatewayOps == {"read", "research", "apply", "status"}

IsDoc(f) == f.st = "json" /\ f.val.t = "obj"
ApplySucceeded == last.op = "apply" /\ last.text = "# Update Applied"
ConfirmedApply == last.op = "apply" /\ last.args.user_confirmed

\* v is a.b.c, three non-negative integers as int() reads them
IsTriple(v) ==
    /\ Len(Split(v)) = 3
    /\ \A i \in 1..3 : IsInt(Split(v)[i]) /\ IntOf(Split(v)[i]) >= 0
HasTriple(f) == IsDoc(f) /\ "version" \in DOMAIN f.val.m /\ IsTriple(f.val.m["version"])

\* a.(b+1).0 for "minor", a.b.(c+1) otherwise
Expected(v, inc) ==
    IF inc = "minor"
    THEN FormatVersion(IntOf(Split(v)[1]), IntOf(Split(v)[2]) + 1, 0)
    ELSE FormatVersion(IntOf(Split(v)[1]), IntOf(Split(v)[2]), IntOf(Split(v)[3]) + 1)

\* the update proposal of the finished call, when it parsed as a JSON object
ProposalText ==
    IF last.op = "apply" THEN last.args.updates_json
    ELSE IF last.args.api = "error" THEN NotJson
    ELSE IF last.args.fenced THEN last.args.inner ELSE last.args.whole
Proposal == ProposalText.val.m
Increment == Get(Proposal, "version_increment", "")

OldDoc == last.pre.file.val.m
NewDoc == file.val.m

\* what the text of roi_config_apply (lines 124-162) makes of a confirmed call
\* on file content f and backups b, the clock showing t at line 144 and t2
\* at line 54
TextApply(p, create_backup, f, b, t, t2) ==
    ApplyHandler([updates_json |-> p, user_confirmed |-> TRUE,
                  create_backup |-> create_backup], f, b, t, t2)
Succeeded(r) == r.ret.text = "# Update Applied"
Errored(r) == ~r.ret.raised /\ r.ret.exc # "" /\ r.ret.text = ErrorText(r.ret.exc)

----------------------------------------------------------------------------
(* C1  Confirmation gate: roi_config_apply with user_confirmed = false     *)
(* returns the confirmation-required error whatever the payload and the    *)
(* file are, opens nothing and leaves the file and the backups as they     *)
(* were; and a Gateway call that changes the file or the backups is an     *)
(* apply with user_confirmed = true.                                       *)
ConfirmationGate ==
    /\ (last.op = "apply" /\ ~last.args.user_confirmed)
         => /\ last.text = ConfirmRequired
            /\ ~last.raised
            /\ last.opened = {}
            /\ file = last.pre.file
            /\ backups = last.pre.backups
    /\ (last.op \in GatewayOps /\ (file # last.pre.file \/ backups # last.pre.backups))
         => ConfirmedApply

----------------------------------------------------------------------------
(* C2  One backup per write: a successful apply with user_confirmed = true *)
(* and create_backup = true adds exactly one backup copy, which holds,     *)
(* byte for byte, the content the file had just before the overwrite, and  *)
(* it removes and replaces no backup copy; so after two such applies there *)
(* are two backup copies more, the second holding what the first apply     *)
(* wrote.  Stated of the calls that finished, and of what the text of      *)
(* roi_config_apply and _write_config does from the state's file.          *)

\* r is a successful backed-up apply on content f and backups b: one copy
\* more, holding f, and the copies of b as they were
AddsOneBackup(r, f, b) ==
    /\ \E t \in DOMAIN r.backups \ DOMAIN b :
          /\ r.backups[t] = f
          /\ DOMAIN r.backups = DOMAIN b \cup {t}
    /\ \A t \in DOMAIN b : r.backups[t] = b[t]

BackedUpPayloads ==
    { Upd(EmptyDict),
      Upd([version_increment |-> "patch"]),
      Upd([gpuTypes_updates |-> [H100 |-> Obj([price |-> 2])]]) }

\* two backed-up applies in a row, the second starting at second t
TwoBackups(p1, p2, t, t2) ==
    LET r1 == TextApply(p1, TRUE, file, backups, now, now)
        r2 == TextApply(p2, TRUE, r1.file, r1.backups, t, t2)
    IN  Succeeded(r1) =>
          /\ AddsOneBackup(r1, file, backups)
          /\ Succeeded(r2) => AddsOneBackup(r2, r1.file, r1.backups)

OneBackupPerWrite ==
    /\ (ApplySucceeded /\ last.args.create_backup)
         => AddsOneBackup([backups |-> backups], last.pre.file, last.pre.backups)
    /\ last.op # "none"
         => \A t \in DOMAIN last.pre.backups :
               t \in DOMAIN backups /\ backups[t] = last.pre.backups[t]
    /\ \A p1 \in BackedUpPayloads, p2 \in BackedUpPayloads, t \in LaterReadings :
          \A t2 \in {u \in {t, t + 1} : u <= MaxTime} : TwoBackups(p1, p2, t, t2)

----------------------------------------------------------------------------
(* C3  Catch-all at the tool boundary: every Gateway operation returns a   *)
(* text and lets no exception escape to its caller.                        *)
NeverRaises ==
    last.op \in GatewayOps => (~last.raised /\ last.text # "")

----------------------------------------------------------------------------
(* C4  Single-file access guard: no Gateway call opens any path but the    *)
(* configured one; and with the configured path absent, a call that gets   *)
(* to _read_config fails with the file-not-found error naming the path,    *)
(* and no file is created.                                                 *)
ReachesReadConfig ==
    \/ last.op \in {"read", "research"}
    \/ last.op = "apply" /\ last.args.user_confirmed /\ last.args.updates_json.st = "json"

AbsentFails ==
    (last.op \in GatewayOps /\ last.pre.file = Absent)
      => /\ file = Absent
         /\ backups = last.pre.backups
         /\ last.opened = {}
         /\ ReachesReadConfig
              => /\ last.exc = "FileNotFoundError"
                 /\ last.raised \/ last.text = "Error: " \o NotFoundMessage

SingleFileAccess ==
    /\ last.op \in GatewayOps => \A o \in last.opened : o.path = ConfigPath
    /\ AbsentFails

----------------------------------------------------------------------------
(* C5  Version bump rule, the same in both programs: for a stored version  *)
(* a.b.c of non-negative integers and a non-empty version_increment, a     *)
(* Gateway apply and a Batch Updater run both write a.(b+1).0 for "minor"  *)
(* and a.b.(c+1) otherwise (1.4.9 -> 1.5.0 and 1.4.9 -> 1.4.10); the major *)
(* component stays, and without a version_increment the version stays.     *)

\* the rule, for the version `old` becoming `new` under increment inc
FollowsRule(old, inc, new) ==
    /\ new = Expected(old, inc)
    /\ IntOf(Split(new)[1]) = IntOf(Split(old)[1])
    /\ old = V149 => new = IF inc = "minor" THEN <<"1", ".", "5", ".", "0">>
                           ELSE <<"1", ".", "4", ".", "1", "0">>

\* the finished call proposed nothing but a version_increment
BumpOnly ==
    /\ IsDoc(ProposalText)
    /\ DOMAIN Proposal \subseteq {"version_increment", "notes"}

\* the file holds the document of before the call with its version bumped
FileBumped ==
    /\ IsDoc(file)
    /\ "version" \in DOMAIN NewDoc
    /\ FollowsRule(OldDoc["version"], Increment, NewDoc["version"])

\* a confirmed Gateway apply of a version_increment to a.b.c
GatewayBumps ==
    (ConfirmedApply /\ BumpOnly /\ Increment # "" /\ HasTriple(last.pre.file))
      => FileBumped

\* a Batch Updater run whose response holds a version_increment, on a.b.c
BatchBumps ==
    (last.op = "batch" /\ BumpOnly /\ Increment # "" /\ HasTriple(last.pre.file))
      => FileBumped

\* no version_increment: the version is left as it was
VersionKept ==
    (last.op \in {"apply", "batch"} /\ BumpOnly /\ Increment = ""
     /\ IsDoc(last.pre.file))
      => (IsDoc(file) /\ Opt(NewDoc, "version") = Opt(OldDoc, "version"))

\* increment_version on a version a.b.c
FunctionBump ==
    (last.op = "increment_version" /\ IsTriple(last.args.version))
      => /\ last.out.ok
         /\ FollowsRule(last.args.version, last.args.increment_type, last.out.val)
         /\ last.out = ApplyVersion(last.args.version, last.args.increment_type)

\* apply_updates on a document whose version is a.b.c
UpdatesBump ==
    (last.op = "apply_updates" /\ last.args.updates.t = "obj"
     /\ "version" \in DOMAIN last.args.config /\ IsTriple(last.args.config["version"]))
      => /\ last.out.ok
         /\ Get(last.args.updates.m, "version_increment", "") # ""
              => /\ last.out.val.changes_made
                 /\ FollowsRule(last.args.config["version"],
                                last.args.updates.m["version_increment"],
                                last.out.val.config["version"])
         /\ Get(last.args.updates.m, "version_increment", "") = ""
              => /\ ~last.out.val.changes_made
                 /\ last.out.val.config["version"] = last.args.config["version"]

\* the part of the rule that is about the two functions of weekly_update.py
RuleOfFunctions == FunctionBump /\ UpdatesBump

\* increment_version took 1.4.9 to 1.5.0
RuleOfFunctionsReached ==
    /\ last.op = "increment_version"
    /\ last.args.version = V149
    /\ last.args.increment_type = "minor"
    /\ last.out = Ok(<<"1", ".", "5", ".", "0">>)

VersionBumpRule ==
    /\ GatewayBumps
    /\ BatchBumps
    /\ VersionKept
    /\ RuleOfFunctions

----------------------------------------------------------------------------
(* C6  Frame of a confirmed apply: a successful apply changes nothing but  *)
(* lastUpdated, version (only with a version_increment) and the properties *)
(* of keys that a category already has; it inserts no key into a category, *)
(* an update entry whose key the category lacks records no change entry,   *)
(* and an empty payload changes lastUpdated only.  Stated of the calls     *)
(* that finished, and of what the text of roi_config_apply does with every *)
(* payload from the state's file.                                          *)
Categories == [gpuTypes |-> "gpuTypes_updates",
               modelArchitectures |-> "modelArchitectures_updates"]
Labels == [gpuTypes |-> "gpuTypes", modelArchitectures |-> "models"]

\* the frame, for the document old becoming new under the proposal prop, with
\* the change entries `changes`
Frame(old, new, prop, changes) ==
    /\ DOMAIN new = DOMAIN old \cup {"lastUpdated"}
                    \cup (IF Get(prop, "version_increment", "") # ""
                          THEN {"version"} ELSE {})
    /\ \A k \in DOMAIN old \ ({"lastUpdated", "version"} \cup DOMAIN Categories) :
          new[k] = old[k]
    /\ Get(prop, "version_increment", "") = "" => Opt(new, "version") = Opt(old, "version")
    /\ \A cat \in DOMAIN Categories \cap DOMAIN old :
          /\ DOMAIN new[cat] = DOMAIN old[cat]
          /\ \A g \in DOMAIN old[cat] :
                g \notin DOMAIN Get(prop, Categories[cat], EmptyDict)
                  => new[cat][g] = old[cat][g]
          /\ DOMAIN Get(prop, Categories[cat], EmptyDict) \cap DOMAIN old[cat] = {}
               => /\ new[cat] = old[cat]
                  /\ \A c \in changes : c[1] # Labels[cat]
    /\ \A c \in changes :
          \E cat \in DOMAIN Categories \cap DOMAIN old :
             c[1] = Labels[cat] /\ c[2] \in DOMAIN old[cat]
    /\ DOMAIN prop = {}
         => /\ DOMAIN new = DOMAIN old \cup {"lastUpdated"}
            /\ \A k \in DOMAIN old \ {"lastUpdated"} : new[k] = old[k]
            /\ changes = {}

\* the frame of what the text does with payload p
FrameOfText(p, create_backup, t2) ==
    LET r == TextApply(p, create_backup, file, backups, now, t2)
    IN  Succeeded(r) =>
          /\ IsDoc(r.file)
          /\ Frame(file.val.m, r.file.val.m, p.val.m, r.ret.out.changes)
          /\ r.ret.out.nchanges =
                Cardinality(r.ret.out.changes) + Cardinality(r.ret.out.vchange)

FrameOfApply ==
    /\ ApplySucceeded => (IsDoc(file) /\ Frame(OldDoc, NewDoc, Proposal, last.out.changes))
    /\ \A p \in Payloads, create_backup \in BOOLEAN, t2 \in LaterReadings :
          FrameOfText(p, create_backup, t2)

\* the text, given an update for a GPU the document does not have, succeeds,
\* leaves gpuTypes as it was and records no change
FrameOfApplyWitness ==
    /\ file = JsonText("asfound", Obj(BaseDoc))
    /\ LET r == TextApply(Upd([gpuTypes_updates |-> [B300 |-> Obj([price |-> 2])]]),
                          TRUE, file, backups, now, now)
       IN  /\ Succeeded(r)
           /\ r.file.val.m["gpuTypes"] = BaseDoc["gpuTypes"]
           /\ r.ret.out.nchanges = 0

----------------------------------------------------------------------------
(* C7  Batch Updater success path: the file holds a document with a        *)
(* version a.b.c and the response parses as a JSON object, so the run      *)
(* bumps the version, stamps lastUpdated, overwrites the file (no backup)  *)
(* and exits 0.                                                            *)
ResponseIsObject == last.op = "batch" /\ IsDoc(ProposalText)

BatchSuccessAsClaimed ==
    (ResponseIsObject /\ HasTriple(last.pre.file))
      => /\ last.out.exit = 0
         /\ last.out.wrote
         /\ file = JsonDumpIndent(Obj(
               Put(IF Increment # ""
                   THEN Put(OldDoc, "version", Expected(OldDoc["version"], Increment))
                   ELSE OldDoc,
                   "lastUpdated", now)))

----------------------------------------------------------------------------
(* C8  Batch Updater failure path: when the file is missing, the API call  *)
(* fails or the response is not JSON, the run ends with a non-zero exit    *)
(* status and the file holds what it held before the run; main's lines     *)
(* 104-116 decide the same for a failed call and for an unparsable         *)
(* response.                                                               *)
FetchFailed(resp) ==
    resp.api = "error" \/ (IF resp.fenced THEN resp.inner ELSE resp.whole).st # "json"

BatchFailure ==
    /\ (last.op = "batch" /\ (last.pre.file = Absent \/ FetchFailed(last.args)))
         => /\ last.out.exit # 0
            /\ ~last.out.wrote
            /\ file = last.pre.file
            /\ backups = last.pre.backups
            /\ \A o \in last.opened : o.mode = "r"
    /\ (last.op = "batch" /\ last.pre.file = Absent)
         => (last.out.exit = 1 /\ ~last.raised /\ last.opened = {})
    /\ (last.op = "batch" /\ IsDoc(last.pre.file))
         => /\ BatchUpdates(OldDoc, Raise("APIError"), now).exit # 0
            /\ ~BatchUpdates(OldDoc, Raise("APIError"), now).write
            /\ BatchUpdates(OldDoc, ParseResponse(JsonLoads(NotJson)), now).exit # 0
            /\ ~BatchUpdates(OldDoc, ParseResponse(JsonLoads(NotJson)), now).write

\* a run while the config file is missing
BatchFailureWitness ==
    /\ last.op = "batch"
    /\ last.pre.file = Absent
    /\ last.out.exit = 1
    /\ ~last.raised
    /\ file = Absent

----------------------------------------------------------------------------
(* C10  All-or-nothing apply: when roi_config_apply returns "Error: ..."   *)
(* for a failure before the write step (a payload that is not JSON or not  *)
(* an object, a missing file, a version that is not three integers, an     *)
(* update entry that is not a mapping), the file and the backups are what  *)
(* they were before the call, also when updates were merged in memory      *)
(* before the failure.  Stated of the calls that finished, and of what the *)
(* text of roi_config_apply does with every payload from the state's file. *)
ApplyErrored == last.op = "apply" /\ Errored([ret |-> last])

\* what the text does with payload p
NothingOnError(p, create_backup, t2) ==
    LET r == TextApply(p, create_backup, file, backups, now, t2)
    IN  Errored(r) =>
          /\ r.file = file
          /\ r.backups = backups
          /\ \A o \in r.ret.opened : o = Open(ConfigPath, "r")

AllOrNothing ==
    /\ ApplyErrored
         => /\ file = last.pre.file
            /\ backups = last.pre.backups
            /\ \A o \in last.opened : o = Open(ConfigPath, "r")
    /\ \A p \in Payloads, create_backup \in BOOLEAN, t2 \in LaterReadings :
          NothingOnError(p, create_backup, t2)

\* the text bumps the version and merges H100 in memory before llama's entry,
\* which is no mapping, makes the call fail
AllOrNothingWitness ==
    /\ file = JsonText("asfound", Obj(BaseDoc))
    /\ LET r == TextApply(PartlyMergeable, TRUE, file, backups, now, now)
       IN  /\ Errored(r)
           /\ r.ret.exc = "AttributeError"
           /\ r.file = file
           /\ r.backups = backups
    /\ ApplyCompute(Upd([version_increment |-> "minor",
                         gpuTypes_updates |-> [H100 |-> Obj([price |-> 2])]]),
                    file, now).config.m["gpuTypes"]["H100"]["price"] = 2

====
